---- MODULE Spec2Model ----
(***************************************************************************)
(* Model of the cosmic_lottery simulation core: the SimulationController   *)
(* (src/unnamed/part_002, second class, lines 864-2067), the physics       *)
(* worker (src/worker.js, lines 1-460) and the configuration               *)
(* (src/unnamed/part_006).                                                 *)
(*                                                                         *)
(* Conventions                                                             *)
(*  - JavaScript `undefined` is the string "undefined"; a phase name is    *)
(*    the string the configuration gives it.  ANIMATION_CONFIG.PHASES has  *)
(*    no SELECTION key, so PHASES.SELECTION evaluates to undefined.        *)
(*  - A Float32 value is a tuple: <<>> is NaN, <<n>> is the number n/10.   *)
(*  - A typed-array variable is a record [null, a]: null = TRUE models a   *)
(*    JavaScript null, a is the element sequence (index 1 is element 0).   *)
(*  - The collaborators handed to the constructor (debug, particleRenderer,*)
(*    webglManager, ui) and THREE are outside the core: their calls return *)
(*    normally.  Of debug.track only the keys the properties read are kept.*)
(*  - Worker.terminate() discards the messages still queued in either      *)
(*    direction.                                                           *)
(***************************************************************************)
EXTENDS Integers, Sequences, FiniteSets, TLC

\* ---------------------------------------------------------------- bounds
\* particles per run, frames per burst of the animation loop, long pauses
MaxN == 2
MaxTicks == 1
MaxPauses == 1
\* messages in flight beyond which no direct setPhase call is made
MaxInFlight == 2
\* frames of the page's animation loop
MaxFrames == 4
\* particles of a run whose draw is examined
MaxDraw == 6
MaxLag == 1
MaxSpeed == 1
MaxMargin == 1
\* particles of a run whose draw loop is followed by iteration
MaxSample == 4

\* ------------------------------------------------------- configuration
Undefined == "undefined"
FLOATING == "floating"
SWIRLING == "swirling"
BLACKHOLE == "blackhole"
CLASHING == "clashing"
SELECTION == Undefined
LINING_UP == "liningUp"

PhaseValues == {FLOATING, SWIRLING, BLACKHOLE, CLASHING, LINING_UP, Undefined}

DURATION_SWIRL == 8000
DURATION_BLACKHOLE == 4000
DURATION_LINE_UP == 2000
DURATION_EXPLOSION == 3000
UPDATE_INTERVAL == 16
PARTICLE_STRIDE == 3

\* ANIMATION_CONFIG.DURATIONS[phase.toUpperCase()]: 0 stands for undefined
\* (both are falsy where the value is used).
DurationOf(phase) ==
    IF phase = BLACKHOLE THEN DURATION_BLACKHOLE ELSE 0

\* ------------------------------------------------------------- floats
NaN == <<>>
Num(n) == <<n>>
IsNaN(v) == v = NaN

\* v + k/10 in IEEE arithmetic, for a finite k
FAdd(v, k) == IF IsNaN(v) THEN NaN ELSE Num(v[1] + k)

\* a * b and a + b in IEEE arithmetic on tenths; NaN is absorbing
FMul(a, b) == IF IsNaN(a) \/ IsNaN(b) THEN NaN ELSE Num((a[1] * b[1]) \div 10)
FSum(a, b) == IF IsNaN(a) \/ IsNaN(b) THEN NaN ELSE Num(a[1] + b[1])

Zeros(n) == [i \in 1..n |-> Num(0)]
NullBuf == [null |-> TRUE, a |-> <<>>]
Buf(seq) == [null |-> FALSE, a |-> seq]

\* ------------------------------------------------------------ messages
\* payload: "ok" when data is an object holding every property its command
\* requires, "missing" when data is an object that lacks one of them,
\* "scalar" when data is not an object
Msg(command, particleCount, phase, time, selected) ==
    [command |-> command, particleCount |-> particleCount, phase |-> phase,
     time |-> time, selected |-> selected, payload |-> "ok"]

Reply(command, error, phase, frame) ==
    [command |-> command, error |-> error, phase |-> phase, frame |-> frame,
     selected |-> <<>>]

NoError == ""
TypeErrorPeculiar == "Cannot read properties of undefined (reading '0')"
UnknownCommand(command) == "Unknown command: " \o command
InvalidMessageData == "Invalid message data"
MissingProperty == "Missing required property"
TypeErrorNull == "Cannot read properties of null (reading 'length')"

\* ctrl: the fields of the SimulationController; wk: the globals of the
\* worker; toWorker, toMain: the messages posted and not yet dispatched;
\* now: performance.now() and the requestAnimationFrame timestamp, in ms.
\* last: the controller entry point that ran last, its argument, the phase
\* it found, whether it ended by throwing to its caller, the keys it
\* handed to debug.track and the accesses it made to the buffers
VARIABLES ctrl, wk, toWorker, toMain, now, last

vars == <<ctrl, wk, toWorker, toMain, now, last>>

\* ------------------------------------------------------- initial state
CtrlInit ==
    [worker |-> FALSE,
     isProcessing |-> FALSE,
     lastUpdateTime |-> 0,
     sharedBuffer |-> FALSE,
     currentPhase |-> FLOATING,
     phaseStartTime |-> 0,
     selectedIndices |-> <<>>,
     selectedParticleMeshes |-> <<>>,
     simulationStarted |-> FALSE,
     luckyParticleSelected |-> FALSE,
     luckyParticleCount |-> 0,
     particlePositions |-> NullBuf,
     particleVelocities |-> NullBuf,
     blackholeStartTime |-> 0,
     clashStartTime |-> 0,
     lineUpStartTime |-> 0,
     targetPositions |-> <<>>,
     isTransitioning |-> FALSE]

WorkerInit ==
    [particlePositions |-> NullBuf,
     particleVelocities |-> NullBuf,
     selectedIndices |-> <<>>,
     currentPhase |-> "idle",
     isProcessing |-> FALSE,
     frameCount |-> 0]

Init ==
    /\ ctrl = CtrlInit
    /\ wk = WorkerInit
    /\ toWorker = <<>>
    /\ toMain = <<>>
    /\ now = 0
    /\ last = [op |-> "constructor", arg |-> Undefined, from |-> FLOATING,
               threw |-> FALSE, tracked |-> {}, touched |-> {}]

\* ------------------------------------------------------------- worlds
\* The operators below transform a "world": the controller object c, the
\* worker globals w, the two message queues, the exception in flight, the
\* keys tracked and the buffer accesses made so far by the running entry
\* point.
World ==
    [c |-> ctrl, w |-> wk, tw |-> toWorker, tm |-> toMain, exc |-> NoError,
     log |-> {}, touch |-> {}]

Throw(W, message) == [W EXCEPT !.exc = message]

\* update requests the worker has not taken from its queue
PendingUpdates(queue) ==
    Cardinality({i \in 1..Len(queue) : queue[i].command = "update"})

\* answers to update requests the controller has not handled yet
PendingAnswers(queue) ==
    Cardinality({i \in 1..Len(queue) :
                    \/ queue[i].command = "updated"
                    \/ /\ queue[i].command = "validation_error"
                       /\ queue[i].error = TypeErrorPeculiar})

\* an element of particlePositions / particleVelocities is read or written
\* by the controller: "busy" when an update request is unanswered at that
\* moment, "idle" otherwise
Touch(W) ==
    [W EXCEPT !.touch = @ \cup
        {IF PendingUpdates(W.tw) + PendingAnswers(W.tm) > 0
         THEN "busy" ELSE "idle"}]

\* run F on every world of Ws in which no exception is propagating
Then(Ws, F(_)) ==
    UNION {IF W.exc # NoError THEN {W} ELSE F(W) : W \in Ws}

\* debug.track(key, value): the keys the properties read
TrackedKeys ==
    {"Invalid Phase Transition", "Invalid Transition"}

Track(W, key) ==
    IF key \in TrackedKeys
    THEN [W EXCEPT !.log = @ \cup {key}]
    ELSE W

\* fault injection: a channel that hands over the newest message first
PostFront(W, msg) ==
    IF W.c.worker
    THEN [W EXCEPT !.tw = <<msg>> \o @]
    ELSE Throw(W, "Cannot read properties of null (reading 'postMessage')")

\* this.worker.postMessage(msg)
Post(W, msg) ==
    IF W.c.worker
    THEN [W EXCEPT !.tw = Append(@, msg)]
    ELSE Throw(W, "Cannot read properties of null (reading 'postMessage')")

\* Map.prototype.set on an insertion-ordered map kept as <<key, value>> pairs
MapSet(m, k, v) ==
    IF \E i \in 1..Len(m) : m[i][1] = k
    THEN [i \in 1..Len(m) |-> IF m[i][1] = k THEN <<k, v>> ELSE m[i]]
    ELSE Append(m, <<k, v>>)

\* Set.prototype.add on an insertion-ordered set kept as a sequence
SetAdd(s, x) ==
    IF \E i \in 1..Len(s) : s[i] = x THEN s ELSE Append(s, x)

SeqToSet(s) == {s[i] : i \in 1..Len(s)}

\* fault injection: a spacing of 2 / length
TargetXByLength(i, length) == <<2 * i - length, length>>

\* -1 + (i * 2 / (length - 1)) as the fraction <<numerator, denominator>>;
\* for length = 1 it is -1 + 0/0 = NaN
TargetX(i, length) ==
    IF length = 1 THEN NaN ELSE <<2 * i - (length - 1), length - 1>>

\* ------------------------------------------------- SimulationController
InitializeWorker(W, particleCount) ==
    [W EXCEPT !.c.worker = TRUE,
              !.w = WorkerInit,
              !.tm = <<>>,
              !.tw = <<Msg("init", particleCount, Undefined, 0, <<>>)>>]

\* fault injection: a validator that accepts every request
IsValidPhaseTransitionAny(oldPhase, newPhase) == TRUE

\* fault injection: a table that lets LiningUp be left for any phase
IsValidPhaseTransitionLoop(oldPhase, newPhase) ==
    \/ <<oldPhase, newPhase>> \in
          {<<FLOATING, SWIRLING>>, <<SWIRLING, BLACKHOLE>>,
           <<BLACKHOLE, CLASHING>>, <<CLASHING, SELECTION>>,
           <<SELECTION, LINING_UP>>}
    \/ oldPhase = newPhase
    \/ oldPhase = LINING_UP

IsValidPhaseTransition(oldPhase, newPhase) ==
    LET validTransitions ==
            {<<FLOATING, SWIRLING>>, <<SWIRLING, BLACKHOLE>>,
             <<BLACKHOLE, CLASHING>>, <<CLASHING, SELECTION>>,
             <<SELECTION, LINING_UP>>}
    IN  <<oldPhase, newPhase>> \in validTransitions \/ oldPhase = newPhase

CreateSelectedParticleMeshes(W, indices) ==
    LET RECURSIVE Each(_, _)
        Each(V, i) ==
            IF i > Len(indices) THEN V
            ELSE Each([Touch(V) EXCEPT
                         !.c.selectedParticleMeshes = SetAdd(@, indices[i]),
                         !.c.targetPositions =
                             MapSet(@, indices[i], TargetX(i - 1, Len(indices)))],
                      i + 1)
    IN  IF Len(indices) > 0 /\ W.c.particlePositions.null
        THEN Throw(W, "Cannot read properties of null (reading '0')")
        ELSE Each(W, 1)

\* fault injection: Math.round in place of Math.floor
RandomIndexRounded(particleCount) == 0..particleCount

\* fault injection: a random index that never is the last one
RandomIndexShort(particleCount) == 0..(particleCount - 2)

\* Math.floor(Math.random() * particleCount)
RandomIndex(particleCount) == 0..(particleCount - 1)

\* the Sets the while loop of selectLuckyParticles can end with: a draw
\* that is already in the Set leaves the loop state as it is
RECURSIVE DrawLoop(_, _, _)
DrawLoop(indices, count, particleCount) ==
    IF ~(Len(indices) < count) THEN {indices}
    ELSE UNION {DrawLoop(SetAdd(indices, r), count, particleCount) :
                  r \in {x \in RandomIndex(particleCount) :
                           SetAdd(indices, x) # indices}}

SelectLuckyParticles(W, count) ==
    IF W.c.particlePositions.null
    THEN {Throw(W, "Cannot read properties of null (reading 'length')")}
    ELSE LET particleCount == Len(W.c.particlePositions.a) \div 3
         IN  {LET V1 == [W EXCEPT !.c.selectedIndices = indices]
                  V2 == CreateSelectedParticleMeshes(V1, indices)
              IN  IF V2.exc # NoError THEN V2
                  ELSE Post(V2, Msg("updateSelected", 0, V2.c.currentPhase,
                                    0, indices))
              : indices \in DrawLoop(<<>>, count, particleCount)}

UpdateSelectedParticleTargets(W) ==
    LET selectedArray == W.c.selectedIndices
        RECURSIVE Each(_, _)
        Each(V, i) ==
            IF i > Len(selectedArray) THEN V
            ELSE Each([V EXCEPT !.c.targetPositions =
                         MapSet(@, selectedArray[i],
                                TargetX(i - 1, Len(selectedArray)))],
                      i + 1)
        V1 == Each(W, 1)
    IN  IF V1.c.worker
        THEN Post(V1, Msg("updateTargets", 0, Undefined, 0, <<>>))
        ELSE V1

\* ANIMATION_CONFIG has no COLORS: reading COLORS.SWIRL_START throws
UpdateVisualsForPhase(W, phase) ==
    IF phase \in {SWIRLING, BLACKHOLE, SELECTION}
    THEN Throw(W, "Cannot read properties of undefined (reading COLORS)")
    ELSE W

RECURSIVE SetPhase(_, _, _)

\* fault injection: a draw that does not look at luckyParticleSelected
StartLuckyDrawAgain(W, targetCount, time) ==
    IF ~W.c.simulationStarted THEN {W}
    ELSE Then(SelectLuckyParticles(
                  [W EXCEPT !.c.luckyParticleSelected = TRUE], targetCount),
              LAMBDA V : SetPhase(V, SWIRLING, time))

StartLuckyDraw(W, targetCount, time) ==
    IF ~W.c.simulationStarted \/ W.c.luckyParticleSelected THEN {W}
    ELSE Then(SelectLuckyParticles(
                  [W EXCEPT !.c.luckyParticleSelected = TRUE], targetCount),
              LAMBDA V : SetPhase(V, SWIRLING, time))

\* fault injection: an initialisation without the SELECTION case
HandlePhaseInitializationNoDraw(W, phase, timestamp) ==
    CASE phase = SWIRLING ->
           LET V == [W EXCEPT !.c.blackholeStartTime =
                                  timestamp + DURATION_SWIRL]
           IN  {IF V.c.worker
                THEN Post(V, Msg("resetForces", 0, Undefined, 0, <<>>))
                ELSE V}
      [] phase = CLASHING -> {[W EXCEPT !.c.clashStartTime = timestamp]}
      [] phase = LINING_UP ->
           {UpdateSelectedParticleTargets(
                [W EXCEPT !.c.lineUpStartTime = timestamp])}
      [] OTHER -> {W}

HandlePhaseInitialization(W, phase, timestamp) ==
    CASE phase = SWIRLING ->
           LET V == [W EXCEPT !.c.blackholeStartTime =
                                  timestamp + DURATION_SWIRL]
           IN  {IF V.c.worker
                THEN Post(V, Msg("resetForces", 0, Undefined, 0, <<>>))
                ELSE V}
      [] phase = BLACKHOLE -> {W}
      [] phase = CLASHING -> {[W EXCEPT !.c.clashStartTime = timestamp]}
      [] phase = SELECTION ->
           IF ~W.c.luckyParticleSelected /\ W.c.luckyParticleCount # 0
           THEN StartLuckyDraw(W, W.c.luckyParticleCount, timestamp)
           ELSE {W}
      [] phase = LINING_UP ->
           {UpdateSelectedParticleTargets(
                [W EXCEPT !.c.lineUpStartTime = timestamp])}
      [] OTHER -> {W}

\* time is the value of performance.now()
SetPhase(W, newPhase, time) ==
    LET oldPhase == W.c.currentPhase
    IN  IF ~IsValidPhaseTransition(oldPhase, newPhase)
        THEN {Track(W, "Invalid Phase Transition")}
        ELSE Then(Then(HandlePhaseInitialization(
                           [W EXCEPT !.c.currentPhase = newPhase,
                                     !.c.phaseStartTime = time],
                           newPhase, time),
                       LAMBDA V : {UpdateVisualsForPhase(V, newPhase)}),
                  LAMBDA V :
                     {IF V.c.worker
                      THEN Post(V, Msg("phaseChange", 0, Undefined, 0, <<>>))
                      ELSE V})

\* fault injection: a recovery that also rolls the phase back to Floating
HandleWorkerErrorRollback(W, error) ==
    LET V == Track(W, "Worker Error")
    IN  IF V.c.particlePositions.null
        THEN Throw(V, "Failed to restart worker")
        ELSE InitializeWorker([V EXCEPT !.c.currentPhase = FLOATING],
                              Len(V.c.particlePositions.a) \div 3)

HandleWorkerError(W, error) ==
    LET V == Track(W, "Worker Error")
    IN  IF V.c.particlePositions.null
        THEN Throw(V, "Failed to restart worker")
        ELSE InitializeWorker(V, Len(V.c.particlePositions.a) \div 3)

\* calculatePhaseProgress(timestamp) as the fraction <<numerator, denominator>>:
\* 0 for a phase without a duration, else Math.min(1, elapsed / duration)
CalculatePhaseProgress(phase, phaseStartTime, timestamp) ==
    LET duration == DurationOf(phase)
        elapsed == timestamp - phaseStartTime
    IN  IF duration = 0 THEN <<0, 1>>
        ELSE IF elapsed >= duration THEN <<1, 1>>
        ELSE <<elapsed, duration>>

\* fault injection: a timed phase that counts as complete from its entry
ProgressCompleteEarly(phase, elapsed) == DurationOf(phase) # 0

\* calculatePhaseProgress(timestamp) >= 1
ProgressComplete(phase, elapsed) ==
    DurationOf(phase) # 0 /\ elapsed >= DurationOf(phase)

\* fault injection: a Floating phase that ends by itself after the time of
\* a swirl
UpdatePhaseTimed(W, timestamp, time) ==
    IF ~W.c.simulationStarted THEN {W}
    ELSE IF W.c.currentPhase = FLOATING
    THEN IF timestamp - W.c.phaseStartTime >= DURATION_SWIRL
         THEN SetPhase(W, SWIRLING, time) ELSE {W}
    ELSE {W}

UpdatePhase(W, timestamp, time) ==
    IF ~W.c.simulationStarted THEN {W}
    ELSE IF W.c.currentPhase = Undefined
    THEN {Throw(W, "Cannot read properties of undefined (reading 'toUpperCase')")}
    ELSE IF ~ProgressComplete(W.c.currentPhase, timestamp - W.c.phaseStartTime)
    THEN {W}
    ELSE CASE W.c.currentPhase = FLOATING ->
                IF W.c.luckyParticleSelected
                THEN SetPhase(W, SWIRLING, time) ELSE {W}
           [] W.c.currentPhase = SWIRLING ->
                IF timestamp >= W.c.blackholeStartTime
                THEN SetPhase(W, BLACKHOLE, time) ELSE {W}
           [] W.c.currentPhase = BLACKHOLE -> SetPhase(W, CLASHING, time)
           \* DURATIONS.CLASH is undefined: the comparison is false
           [] W.c.currentPhase = CLASHING -> {W}
           [] W.c.currentPhase = SELECTION ->
                IF timestamp - W.c.lineUpStartTime >= DURATION_LINE_UP
                THEN SetPhase(W, LINING_UP, time) ELSE {W}
           [] OTHER -> {W}

\* the timestamp of a call without argument (undefined)
UndefinedTime == -1

\* timestamp - this.lastUpdateTime < this.UPDATE_INTERVAL; with an undefined
\* operand the difference is NaN and the comparison is false
TooSoon(timestamp, lastUpdateTime) ==
    /\ timestamp # UndefinedTime
    /\ lastUpdateTime # UndefinedTime
    /\ timestamp - lastUpdateTime < UPDATE_INTERVAL

Update(W, timestamp, time) ==
    IF ~W.c.worker \/ W.c.isProcessing
       \/ TooSoon(timestamp, W.c.lastUpdateTime)
       \/ ~W.c.simulationStarted
    THEN {W}
    ELSE LET W1 == [W EXCEPT !.c.lastUpdateTime = timestamp,
                             !.c.isProcessing = TRUE]
             tried == Then(UpdatePhase(W1, timestamp, time),
                           LAMBDA V : {Post(V, Msg("update", 0, V.c.currentPhase,
                                                   timestamp, V.c.selectedIndices))})
             caught == {IF V.exc = NoError THEN V
                        ELSE HandleWorkerError(
                                 Track([V EXCEPT !.exc = NoError], "Update Error"),
                                 V.exc)
                        : V \in tried}
         IN  {[V EXCEPT !.c.isProcessing = FALSE] : V \in caught}

\* update of js/SimulationController.js, the class the page imports: its
\* guard does not look at simulationStarted, updatePhase does
UpdateJs(W, timestamp, time) ==
    IF ~W.c.worker \/ W.c.isProcessing
       \/ TooSoon(timestamp, W.c.lastUpdateTime)
    THEN {W}
    ELSE LET W1 == [W EXCEPT !.c.lastUpdateTime = timestamp,
                             !.c.isProcessing = TRUE]
             phased == IF W1.c.simulationStarted
                       THEN UpdatePhase(W1, timestamp, time) ELSE {W1}
             tried == Then(phased,
                           LAMBDA V : {Post(V, Msg("update", 0, V.c.currentPhase,
                                                   timestamp, V.c.selectedIndices))})
             caught == {IF V.exc = NoError THEN V
                        ELSE HandleWorkerError(
                                 Track([V EXCEPT !.exc = NoError], "Update Error"),
                                 V.exc)
                        : V \in tried}
         IN  {[V EXCEPT !.c.isProcessing = FALSE] : V \in caught}

ResetToSafeState(W, time) ==
    [W EXCEPT !.c.currentPhase = FLOATING,
              !.c.phaseStartTime = time,
              !.c.isTransitioning = FALSE]

HandleTransitionError(W, fromPhase, time) ==
    {IF V.exc = NoError THEN V
     ELSE ResetToSafeState([V EXCEPT !.exc = NoError], time)
     : V \in SetPhase(W, fromPhase, time)}

HandlePhaseChange(W, newPhase, time) ==
    LET fromPhase == W.c.currentPhase
    IN  IF W.c.isTransitioning THEN {Track(W, "Transition Blocked")}
        ELSE IF ~IsValidPhaseTransition(fromPhase, newPhase)
        THEN {Track(W, "Invalid Transition")}
        ELSE LET tried ==
                   Then(SetPhase([W EXCEPT !.c.isTransitioning = TRUE],
                                 newPhase, time),
                        LAMBDA V :
                           IF newPhase = SELECTION /\ ~V.c.luckyParticleSelected
                           THEN StartLuckyDraw(V, V.c.luckyParticleCount, time)
                           ELSE {V})
             IN  UNION {IF V.exc = NoError THEN {V}
                        ELSE HandleTransitionError([V EXCEPT !.exc = NoError],
                                                   fromPhase, time)
                        : V \in tried}

HandleParticleSelection(W, selected) ==
    CreateSelectedParticleMeshes([W EXCEPT !.c.selectedIndices = selected],
                                 selected)

\* the renderer is handed particlePositions; the position of every selected
\* mesh is read from it
UpdateParticleVisuals(W) == Touch(W)

HandleWorkerMessage(W, m, time) ==
    IF m.error # NoError
    THEN IF m.command = "validation_error"
         THEN {Track(W, "Worker Validation Error")}
         ELSE {HandleWorkerError(W, m.error)}
    ELSE CASE m.command = "updated" ->
                LET V == UpdateParticleVisuals(W)
                IN  IF m.phase # V.c.currentPhase
                    THEN HandlePhaseChange(V, m.phase, time)
                    ELSE {V}
           [] m.command = "selected" -> {HandleParticleSelection(W, m.selected)}
           [] OTHER -> {W}

\* fault injection: a cleanup that forgets the worker without terminating
\* it, so that its messages still arrive
CleanupWorkerDetach(W) ==
    IF W.c.worker
    THEN [W EXCEPT !.c.worker = FALSE]
    ELSE W

CleanupWorker(W) ==
    IF W.c.worker
    THEN [W EXCEPT !.c.worker = FALSE, !.w = WorkerInit,
                   !.tw = <<>>, !.tm = <<>>]
    ELSE W

\* fault injection: a reset that leaves the selection and the run flags
ResetSimulationPartial(W) ==
    CleanupWorker([W EXCEPT !.c.currentPhase = FLOATING,
                            !.c.phaseStartTime = 0,
                            !.c.targetPositions = <<>>,
                            !.c.selectedParticleMeshes = <<>>])

ResetSimulation(W) ==
    LET V == CleanupWorker(
                 [W EXCEPT !.c.currentPhase = FLOATING,
                           !.c.phaseStartTime = 0,
                           !.c.blackholeStartTime = 0,
                           !.c.clashStartTime = 0,
                           !.c.lineUpStartTime = 0,
                           !.c.simulationStarted = FALSE,
                           !.c.luckyParticleSelected = FALSE,
                           !.c.selectedIndices = <<>>,
                           !.c.targetPositions = <<>>,
                           !.c.selectedParticleMeshes = <<>>])
    IN  IF V.c.sharedBuffer
        THEN [Touch(V) EXCEPT
                !.c.particlePositions.a = Zeros(Len(@)),
                !.c.particleVelocities.a = Zeros(Len(@))]
        ELSE V

Dispose(W) ==
    [CleanupWorker(W) EXCEPT
        !.c.selectedParticleMeshes = <<>>,
        !.c.selectedIndices = <<>>,
        !.c.targetPositions = <<>>,
        !.c.sharedBuffer = FALSE,
        !.c.particlePositions = NullBuf,
        !.c.particleVelocities = NullBuf]

\* fault injection: a start that does not look at simulationStarted
StartSimulationAgain(W, maxNumber, numLuckyNumbers, time) ==
    InitializeWorker(
        [W EXCEPT !.c.simulationStarted = TRUE,
                  !.c.currentPhase = FLOATING,
                  !.c.phaseStartTime = time,
                  !.c.luckyParticleCount = numLuckyNumbers,
                  !.c.sharedBuffer = TRUE,
                  !.c.particlePositions =
                      Buf(Zeros(maxNumber * PARTICLE_STRIDE)),
                  !.c.particleVelocities =
                      Buf(Zeros(maxNumber * PARTICLE_STRIDE))],
        maxNumber)

StartSimulation(W, maxNumber, numLuckyNumbers, time) ==
    IF W.c.simulationStarted THEN W
    ELSE InitializeWorker(
             [W EXCEPT !.c.simulationStarted = TRUE,
                       !.c.currentPhase = FLOATING,
                       !.c.phaseStartTime = time,
                       !.c.luckyParticleCount = numLuckyNumbers,
                       !.c.sharedBuffer = TRUE,
                       !.c.particlePositions =
                           Buf(Zeros(maxNumber * PARTICLE_STRIDE)),
                       !.c.particleVelocities =
                           Buf(Zeros(maxNumber * PARTICLE_STRIDE))],
             maxNumber)

\* ------------------------------------------------------------ worker.js
\* params.damping as the worker reads it: getCurrentPhaseParams takes it
\* from PHYSICS_CONFIG.DAMPING_BASE / _SWIRL / _MAX / _CLASH, none of which
\* the configuration defines, and returns {} for liningUp
DampingParam(phase) == NaN

\* applySelectionEffects adds 0.5 * (params?.glowIntensity || 1.0)
GlowImpulse == 5

\* fault injection: a velocity buffer of one element per particle
CreateBuffersUnstrided(w, count) ==
    [w EXCEPT !.particlePositions = Buf(Zeros(count * PARTICLE_STRIDE)),
              !.particleVelocities = Buf(Zeros(count)),
              !.selectedIndices = <<>>]

CreateBuffers(w, count) ==
    [w EXCEPT !.particlePositions = Buf(Zeros(count * PARTICLE_STRIDE)),
              !.particleVelocities = Buf(Zeros(count * PARTICLE_STRIDE)),
              !.selectedIndices = <<>>]

ApplySelectionEffects(w, selectedParticles) ==
    LET hit == {selectedParticles[i] * PARTICLE_STRIDE + 3 :
                  i \in 1..Len(selectedParticles)}
    IN  [w EXCEPT !.particleVelocities.a =
            [j \in 1..Len(@) |-> IF j \in hit THEN FAdd(@[j], GlowImpulse)
                                 ELSE @[j]]]

\* applyFloatingPhysics reads params.peculiarVelocity[d]; the parameters
\* carry PECULIAR_VELOCITY only, so the read throws a TypeError
\* fault injection: a floating rule that reads parameters that exist
FloatingPhysicsReturns == FALSE

FloatingPhysicsThrows == TRUE

\* the velocity of one component after the damping step and the force
\* step of the phase: every force term adds to the damped value
ForceStep(v, phase) == FSum(FMul(v, DampingParam(phase)), Num(0))

\* One pass of updateParticlePhysics.  Returns the worker state and the
\* message of the exception that ended the pass, if any.
UpdateParticlePhysics(w, phase) ==
    LET particleCount == Len(w.particlePositions.a) \div PARTICLE_STRIDE
        ParticleOf(j) == (j - 1) \div PARTICLE_STRIDE
        skipped(i) == phase = "liningUp" /\ i \in SeqToSet(w.selectedIndices)
    IN  IF w.particlePositions.null
        THEN [w |-> w, error |-> TypeErrorNull]
        ELSE IF phase = "floating" /\ FloatingPhysicsThrows /\ particleCount > 0
        THEN [w |-> [w EXCEPT !.particleVelocities.a =
                        [j \in 1..Len(@) |->
                            IF ParticleOf(j) = 0
                            THEN FMul(@[j], DampingParam(phase)) ELSE @[j]]],
              error |-> TypeErrorPeculiar]
        ELSE LET vel == [j \in 1..Len(w.particleVelocities.a) |->
                            IF skipped(ParticleOf(j))
                            THEN w.particleVelocities.a[j]
                            ELSE ForceStep(w.particleVelocities.a[j], phase)]
                 pos == [j \in 1..Len(w.particlePositions.a) |->
                            IF skipped(ParticleOf(j))
                            THEN w.particlePositions.a[j]
                            ELSE FSum(w.particlePositions.a[j], vel[j])]
             IN  [w |-> [w EXCEPT !.particleVelocities.a = vel,
                                  !.particlePositions.a = pos],
                  error |-> NoError]

WorkerResetSimulation(w) ==
    [w EXCEPT !.particlePositions.a = Zeros(Len(@)),
              !.particleVelocities.a = Zeros(Len(@)),
              !.selectedIndices = <<>>,
              !.currentPhase = "idle",
              !.frameCount = 0]

\* validateMessage: the message of the Error it throws, NoError when it
\* returns
ValidateMessageLax(m) == NoError

ValidateMessage(m) ==
    IF m.payload = "scalar" THEN InvalidMessageData
    ELSE IF m.payload = "missing" THEN MissingProperty
    ELSE NoError

ValidationError(error) == Reply("validation_error", error, Undefined, 0)

\* self.onmessage: the new worker globals and the message it posts, if any;
\* the finally block leaves isProcessing false on every path
OnMessage(w, m) ==
    IF w.isProcessing THEN [w |-> w, out |-> <<>>]
    ELSE CASE m.command = "init" ->
                IF ValidateMessage(m) # NoError
                THEN [w |-> w, out |-> <<ValidationError(ValidateMessage(m))>>]
                ELSE
                [w |-> [CreateBuffers(w, m.particleCount) EXCEPT
                           !.currentPhase = "idle", !.frameCount = 0],
                 out |-> <<Reply("initialized", NoError, Undefined, 0)>>]
           [] m.command = "update" ->
                IF ValidateMessage(m) # NoError
                THEN [w |-> w, out |-> <<ValidationError(ValidateMessage(m))>>]
                ELSE
                LET w1 == [w EXCEPT !.currentPhase = m.phase]
                    r == UpdateParticlePhysics(w1, m.phase)
                IN  IF r.error # NoError
                    THEN [w |-> r.w, out |-> <<ValidationError(r.error)>>]
                    ELSE [w |-> [r.w EXCEPT !.frameCount = @ + 1],
                          out |-> <<Reply("updated", NoError, m.phase,
                                          r.w.frameCount + 1)>>]
           [] m.command = "updateSelected" ->
                IF ValidateMessage(m) # NoError
                THEN [w |-> w, out |-> <<ValidationError(ValidateMessage(m))>>]
                ELSE
                [w |-> ApplySelectionEffects(
                           [w EXCEPT !.selectedIndices = m.selected],
                           m.selected),
                 out |-> <<>>]
           [] m.command = "reset" ->
                [w |-> WorkerResetSimulation(w),
                 out |-> <<Reply("reset_complete", NoError, Undefined, 0)>>]
           [] OTHER ->
                [w |-> w,
                 out |-> <<ValidationError(UnknownCommand(m.command))>>]

\* -------------------------------------------------------------- actions
Apply(W, name, arg) ==
    /\ ctrl' = W.c
    /\ wk' = W.w
    /\ toWorker' = W.tw
    /\ toMain' = W.tm
    /\ last' = [op |-> name, arg |-> arg, from |-> ctrl.currentPhase,
                threw |-> W.exc # NoError, tracked |-> W.log,
                touched |-> W.touch]
    /\ UNCHANGED now

\* the driving layer starts a run (UIController.handleStartClick validates
\* 1 <= numLuckyNumbers <= maxNumber)
DoStartSimulation ==
    \E maxNumber \in 1..MaxN : \E numLuckyNumbers \in 1..maxNumber :
        Apply(StartSimulation(World, maxNumber, numLuckyNumbers, now),
              "startSimulation", Undefined)

DoStartLuckyDraw ==
    \E W \in StartLuckyDraw(World, ctrl.luckyParticleCount, now) :
        Apply(W, "startLuckyDraw", Undefined)

\* time passes: one frame interval
Tick ==
    /\ (now % DURATION_SWIRL) \div UPDATE_INTERVAL < MaxTicks
    /\ now' = now + UPDATE_INTERVAL
    /\ UNCHANGED <<ctrl, wk, toWorker, toMain, last>>

\* time passes: a pause as long as the longest duration a phase timer of
\* this configuration can run
Pause ==
    /\ now \div DURATION_SWIRL < MaxPauses
    /\ now' = now + DURATION_SWIRL
    /\ UNCHANGED <<ctrl, wk, toWorker, toMain, last>>

\* the animation loop calls update(timestamp); a rejected promise is not
\* an exception of the caller
DoUpdate ==
    \E W \in Update(World, now, now) :
        Apply([W EXCEPT !.exc = NoError], "update", Undefined)

\* the worker takes the next message of its queue
WorkerStep ==
    /\ ctrl.worker
    /\ toWorker # <<>>
    /\ LET r == OnMessage(wk, Head(toWorker))
       IN  /\ wk' = r.w
           /\ toWorker' = Tail(toWorker)
           /\ toMain' = toMain \o r.out
    /\ UNCHANGED <<ctrl, now, last>>

\* the main thread dispatches the next message of the worker
Deliver ==
    /\ toMain # <<>>
    /\ \E W \in HandleWorkerMessage([World EXCEPT !.tm = Tail(toMain)],
                                    Head(toMain), now) :
           Apply(W, "handleWorkerMessage", Undefined)

DoResetSimulation == Apply(ResetSimulation(World), "resetSimulation", Undefined)

DoDispose == Apply(Dispose(World), "dispose", Undefined)

Next ==
    \/ DoStartSimulation
    \/ DoStartLuckyDraw
    \/ Tick
    \/ Pause
    \/ DoUpdate
    \/ WorkerStep
    \/ Deliver
    \/ DoResetSimulation
    \/ DoDispose

Spec == Init /\ [][Next]_vars

\* a direct call of the public method setPhase
DoSetPhase ==
    /\ Len(toWorker) + Len(toMain) < MaxInFlight
    /\ \E newPhase \in PhaseValues :
          \E W \in SetPhase(World, newPhase, now) : Apply(W, "setPhase", newPhase)

\* a run of MaxN particles with one lucky number: the phase control does not
\* read the particle counts
DoStartSimulationOne ==
    Apply(StartSimulation(World, MaxN, 1, now), "startSimulation", Undefined)

NextApi ==
    \/ DoStartSimulationOne
    \/ DoStartLuckyDraw
    \/ DoSetPhase
    \/ Pause
    \/ DoUpdate
    \/ WorkerStep
    \/ Deliver
    \/ DoResetSimulation
    \/ DoDispose

SpecApi == Init /\ [][NextApi]_vars

\* ---------------------------------------------- the worker as a component
\* a message whose data lacks a required property or is not an object
Malformed(command, payload) ==
    [command |-> command, particleCount |-> 0, phase |-> Undefined,
     time |-> 0, selected |-> <<>>, payload |-> payload]

ValidatedCommands == {"init", "update", "updateSelected"}

\* the messages a client of the worker may post besides those of the
\* controller: malformed ones, unknown commands, and a well-formed reset
ClientMessages ==
    {Malformed(c, p) : c \in ValidatedCommands, p \in {"missing", "scalar"}}
    \cup {Msg(c, 0, Undefined, 0, <<>>) : c \in {"bogus", Undefined, "reset"}}

\* a message event reaches self.onmessage
PostToWorker ==
    /\ ctrl.worker
    /\ Len(toWorker) + Len(toMain) < MaxInFlight
    /\ \E m \in ClientMessages : toWorker' = Append(toWorker, m)
    /\ UNCHANGED <<ctrl, wk, toMain, now, last>>

\* a failure of the worker is reported to the controller
DoHandleWorkerError ==
    Apply(HandleWorkerError(World, "error"), "handleWorkerError", Undefined)

NextWorker ==
    \/ DoStartSimulationOne
    \/ DoStartLuckyDraw
    \/ PostToWorker
    \/ WorkerStep
    \/ Deliver
    \/ DoHandleWorkerError

SpecWorker == Init /\ [][NextWorker]_vars

\* ------------------------------------------------------------ the page
\* a display that refreshes every 8 ms
FrameInterval == 8

\* init() of the page: the controller is constructed, initializeWorker() is
\* called without a particle count (an empty buffer in the worker), and
\* animate() is called without a timestamp
PageInit ==
    /\ last.op = "constructor"
    /\ ~ctrl.worker
    /\ \E W \in UpdateJs(InitializeWorker(World, 0), UndefinedTime, now) :
           Apply([W EXCEPT !.exc = NoError], "animate", Undefined)

\* requestAnimationFrame calls animate(timestamp) one or two refresh
\* intervals after the previous frame
Frame ==
    /\ last.op = "animate"
    /\ now < MaxFrames * FrameInterval
    /\ \E k \in 1..2 :
           /\ now' = now + k * FrameInterval
           /\ \E W \in UpdateJs(World, now', now') :
                  /\ ctrl' = W.c
                  /\ wk' = W.w
                  /\ toWorker' = W.tw
                  /\ toMain' = W.tm
    /\ UNCHANGED last

DeliverToPage ==
    /\ toMain # <<>>
    /\ \E W \in HandleWorkerMessage([World EXCEPT !.tm = Tail(toMain)],
                                    Head(toMain), now) :
           /\ ctrl' = W.c
           /\ wk' = W.w
           /\ toWorker' = W.tw
           /\ toMain' = W.tm
    /\ UNCHANGED <<now, last>>

NextPage ==
    \/ PageInit
    \/ Frame
    \/ WorkerStep
    \/ DeliverToPage

SpecPage == Init /\ [][NextPage]_vars

\* ------------------------------------------------------------ the draw
\* a run of MaxDraw particles is started for a draw of any size
DoStartSimulationDraw ==
    \E numLuckyNumbers \in 1..MaxDraw :
        Apply(StartSimulation(World, MaxDraw, numLuckyNumbers, now),
              "startSimulation", Undefined)

\* the targets are computed again, as on entry into LiningUp
DoUpdateSelectedParticleTargets ==
    /\ last.op = "startLuckyDraw"
    /\ last.from = FLOATING
    /\ Apply(UpdateSelectedParticleTargets(World),
             "updateSelectedParticleTargets", Undefined)

NextDraw ==
    \/ DoStartSimulationDraw
    \/ DoStartLuckyDraw
    \/ DoUpdateSelectedParticleTargets
    \/ DoResetSimulation

SpecDraw == Init /\ [][NextDraw]_vars

\* ------------------------------------ the pass with defined parameters
\* One particle in a pass whose parameters are numbers.  Quantities are
\* integers in tenths; the inputs are multiples of SpeedUnit and ForceUnit,
\* for which every product below is an integer (rounding to Float32 is not
\* looked at).
PassDamping == 5
PassBoxSize == 1000
PassRadius == 10
BounceFactor == 8
FadeFactor == 95
SpeedUnit == 200
ForceUnit == 100
Axes == 1..PARTICLE_STRIDE

\* fault injection: a bounce that keeps the speed
BounceAxisElastic(p, v, halfBox, particleRadius) ==
    IF p + v + particleRadius > halfBox
    THEN [p |-> halfBox - particleRadius, v |-> -v]
    ELSE IF p + v - particleRadius < -halfBox
    THEN [p |-> -halfBox + particleRadius, v |-> -v]
    ELSE [p |-> p + v, v |-> v]

\* one axis of handleBoundaryCollisions / of the boundary loop of
\* handleBlackholeCollisions: integrate, then bounce at a face
BounceAxis(p, v, halfBox, particleRadius) ==
    IF p + v + particleRadius > halfBox
    THEN [p |-> halfBox - particleRadius, v |-> (-BounceFactor * v) \div 10]
    ELSE IF p + v - particleRadius < -halfBox
    THEN [p |-> -halfBox + particleRadius, v |-> (-BounceFactor * v) \div 10]
    ELSE [p |-> p + v, v |-> v]

HandleBoundaryCollisions(pos, vel, halfBox, particleRadius) ==
    [d \in Axes |-> BounceAxis(pos[d], vel[d], halfBox, particleRadius)]

\* distanceToCenter < halfBox * 0.1, compared on the squares
NearCenter(pos, halfBox) ==
    100 * (pos[1] * pos[1] + pos[2] * pos[2] + pos[3] * pos[3])
        < halfBox * halfBox

\* the velocity handleBlackholeCollisions integrates: faded for a particle
\* near the centre that is not selected
Faded(pos, vel, halfBox, isSelected) ==
    IF ~isSelected /\ NearCenter(pos, halfBox)
    THEN [d \in Axes |-> (vel[d] * FadeFactor) \div 100]
    ELSE vel

HandleBlackholeCollisions(pos, vel, halfBox, particleRadius, isSelected) ==
    LET faded == Faded(pos, vel, halfBox, isSelected)
    IN  [d \in Axes |-> BounceAxis(pos[d], faded[d], halfBox, particleRadius)]

\* the velocity after the damping loop and the force of the phase; force is
\* what the rule of the phase adds (it has random terms), liningUp has no rule
DampedAndForced(vel, phase, force) ==
    [d \in Axes |->
        (vel[d] * PassDamping) \div 10
          + (IF phase \in {FLOATING, SWIRLING, BLACKHOLE, CLASHING}
             THEN force[d] ELSE 0)]

\* the body of the particle loop of updateParticlePhysics for one particle:
\* its position and velocity after the pass
UpdateParticle(pos, vel, phase, isSelected, force) ==
    IF phase = LINING_UP /\ isSelected
    THEN [d \in Axes |-> [p |-> pos[d], v |-> vel[d]]]
    ELSE LET v == DampedAndForced(vel, phase, force)
             halfBox == PassBoxSize \div 2
         IN  IF phase \in {BLACKHOLE, CLASHING}
             THEN HandleBlackholeCollisions(pos, v, halfBox, PassRadius,
                                            isSelected)
             ELSE HandleBoundaryCollisions(pos, v, halfBox, PassRadius)

Speeds == {k * SpeedUnit : k \in -MaxSpeed..MaxSpeed}
Coordinates == {-(PassBoxSize \div 2 - PassRadius), 0,
                PassBoxSize \div 2 - PassRadius}
Forces == {<<0, 0, 0>>, <<ForceUnit, ForceUnit, ForceUnit>>,
           <<-ForceUnit, 0, ForceUnit>>}

\* a worker that holds one particle, at rest or moving, selected or not
InitPass ==
    /\ ctrl = CtrlInit
    /\ \E pos \in [Axes -> Coordinates], vel \in [Axes -> Speeds],
          selected \in {<<>>, <<0>>} :
          wk = [WorkerInit EXCEPT
                   !.particlePositions = Buf([d \in Axes |-> Num(pos[d])]),
                   !.particleVelocities = Buf([d \in Axes |-> Num(vel[d])]),
                   !.selectedIndices = selected]
    /\ toWorker = <<>>
    /\ toMain = <<>>
    /\ now = 0
    /\ last = [op |-> "constructor", arg |-> Undefined, from |-> FLOATING,
               threw |-> FALSE, tracked |-> {}, touched |-> {}]

\* updateParticlePhysics runs over the particle, in any phase
DoUpdateParticlePhysics ==
    /\ last.op = "constructor"
    /\ \E phase \in {FLOATING, SWIRLING, BLACKHOLE, CLASHING, LINING_UP},
          force \in Forces :
          LET pos == [d \in Axes |-> wk.particlePositions.a[d][1]]
              vel == [d \in Axes |-> wk.particleVelocities.a[d][1]]
              isSelected == 0 \in SeqToSet(wk.selectedIndices)
              r == UpdateParticle(pos, vel, phase, isSelected, force)
          IN  /\ wk' = [wk EXCEPT
                           !.particlePositions.a = [d \in Axes |-> Num(r[d].p)],
                           !.particleVelocities.a = [d \in Axes |-> Num(r[d].v)],
                           !.currentPhase = phase]
              /\ last' = [last EXCEPT
                             !.op = "updateParticlePhysics",
                             !.arg = [phase |-> phase, force |-> force,
                                      pos |-> pos, vel |-> vel,
                                      isSelected |-> isSelected]]
    /\ UNCHANGED <<ctrl, toWorker, toMain, now>>

NextPass == DoUpdateParticlePhysics

SpecPass == InitPass /\ [][NextPass]_vars

\* ----------------------------------------------------- the frame clock
\* requestAnimationFrame hands animate the time at which the frame began;
\* performance.now(), read inside setPhase, is the time of the call, up to
\* MaxLag milliseconds later
DoAnimate ==
    \E lag \in 0..MaxLag :
        /\ now - lag >= 0
        /\ \E W \in Update(World, now - lag, now) :
               Apply([W EXCEPT !.exc = NoError], "update", now - lag)

NextClock ==
    \/ DoStartSimulationOne
    \/ DoSetPhase
    \/ Pause
    \/ DoAnimate
    \/ WorkerStep
    \/ Deliver

SpecClock == Init /\ [][NextClock]_vars

\* ---------------------------------------------------- the start button
\* the limits validateInputs tests the two inputs against
MIN_MAX_NUMBER == 10
MAX_MAX_NUMBER == 10000
MIN_LUCKY_NUMBERS == 1
MAX_LUCKY_NUMBERS == 100

\* fault injection: a validation of the two ranges only
ValidateInputsRanges(maxNumber, numLuckyNumbers) ==
    IF IsNaN(maxNumber) \/ maxNumber[1] < MIN_MAX_NUMBER
       \/ maxNumber[1] > MAX_MAX_NUMBER
    THEN FALSE
    ELSE IF IsNaN(numLuckyNumbers) \/ numLuckyNumbers[1] < MIN_LUCKY_NUMBERS
            \/ numLuckyNumbers[1] > MAX_LUCKY_NUMBERS
    THEN FALSE
    ELSE TRUE

\* validateInputs on the results of parseInt: NaN or an integer
ValidateInputs(maxNumber, numLuckyNumbers) ==
    IF IsNaN(maxNumber) \/ maxNumber[1] < MIN_MAX_NUMBER
       \/ maxNumber[1] > MAX_MAX_NUMBER
    THEN FALSE
    ELSE IF IsNaN(numLuckyNumbers) \/ numLuckyNumbers[1] < MIN_LUCKY_NUMBERS
            \/ numLuckyNumbers[1] > MAX_LUCKY_NUMBERS
    THEN FALSE
    ELSE IF numLuckyNumbers[1] > maxNumber[1]
    THEN FALSE
    ELSE TRUE

\* what the two input fields can hold after parseInt: no number, and the
\* integers within MaxMargin of a limit of either field
Near(n) == {Num(k) : k \in (n - MaxMargin)..(n + MaxMargin)}
MaxNumberInputs ==
    {NaN} \cup Near(MIN_MAX_NUMBER) \cup Near(MAX_LUCKY_NUMBERS)
          \cup {Num(MAX_MAX_NUMBER + 1)}
NumLuckyNumbersInputs ==
    {NaN} \cup Near(MIN_LUCKY_NUMBERS) \cup Near(MIN_MAX_NUMBER)
          \cup Near(MAX_LUCKY_NUMBERS)

\* handleStartClick: the run is started with the two inputs if they are
\* valid, else an error is shown; updateButtonStates disables the start
\* button while a run is started
DoHandleStartClick ==
    /\ ~ctrl.simulationStarted
    /\ \E maxNumber \in MaxNumberInputs, numLuckyNumbers \in NumLuckyNumbersInputs :
        IF ValidateInputs(maxNumber, numLuckyNumbers)
        THEN Apply(StartSimulation(World, maxNumber[1], numLuckyNumbers[1], now),
                   "startSimulation", <<maxNumber, numLuckyNumbers>>)
        ELSE Apply(World, "showError", <<maxNumber, numLuckyNumbers>>)

\* handleRestartClick; the restart button is enabled while a run is started
DoHandleRestartClick ==
    /\ ctrl.simulationStarted
    /\ Apply(ResetSimulation(World), "resetSimulation", Undefined)

NextUi ==
    \/ DoHandleStartClick
    \/ DoHandleRestartClick
    \/ WorkerStep
    \/ Deliver

SpecUi == Init /\ [][NextUi]_vars

\* ------------------------------------------------- the phase parameters
\* a property of PHYSICS_CONFIG as the controller reads it: a number, in
\* units of 1/10000, or undefined when the configuration has no such key
Known(n) == [defined |-> TRUE, value |-> n]
Missing == [defined |-> FALSE, value |-> 0]
GRAVITY_BASE == Known(10)
GRAVITY_MAX == Known(50)
ORBITAL_BASE == Known(5)
ORBITAL_MAX == Known(20)
GRAVITY_BLACKHOLE == Missing
GRAVITY_MIN == Missing
ORBITAL_MIN == Missing
DAMPING_BASE == Missing
DAMPING_SWIRL == Missing
DAMPING_MAX == Missing
DAMPING_CLASH == Missing

\* getCurrentPhaseParams for a value of currentPhase; the case labelled
\* PHASES.SELECTION is the case of the value undefined, and liningUp falls
\* to the default
GetCurrentPhaseParams(phase) ==
    CASE phase = FLOATING ->
            [gravitationalPull |-> GRAVITY_BASE,
             orbitalVelocityFactor |-> ORBITAL_BASE,
             damping |-> DAMPING_BASE]
      [] phase = SWIRLING ->
            [gravitationalPull |-> GRAVITY_MAX,
             orbitalVelocityFactor |-> ORBITAL_MAX,
             damping |-> DAMPING_SWIRL]
      [] phase = BLACKHOLE ->
            [gravitationalPull |-> GRAVITY_BLACKHOLE,
             orbitalVelocityFactor |-> Known(0),
             damping |-> DAMPING_MAX]
      [] phase = CLASHING ->
            [gravitationalPull |-> GRAVITY_MIN,
             orbitalVelocityFactor |-> ORBITAL_MIN,
             damping |-> DAMPING_CLASH]
      [] phase = SELECTION ->
            [gravitationalPull |-> Known(0),
             orbitalVelocityFactor |-> Known(0),
             damping |-> DAMPING_MAX]
      [] OTHER ->
            [gravitationalPull |-> Missing,
             orbitalVelocityFactor |-> Missing,
             damping |-> Missing]

\* ------------------------------------------- the loop body, by statement
\* The statements of the particle loop of updateParticlePhysics in the order
\* of the text: the damping loop, the switch on the phase, then the
\* collision handler of the phase, which fades (blackhole and clashing only)
\* and, axis by axis, adds the velocity to the position and tests the faces.
Statement(s, d) == [s |-> s, d |-> d]

\* fault injection: the switch on the phase placed before the damping loop
LoopBodyForceFirst(phase) ==
    <<Statement("force", 0), Statement("damp", 0)>>
    \o (IF phase \in {BLACKHOLE, CLASHING}
        THEN <<Statement("fade", 0)>> ELSE <<>>)
    \o <<Statement("integrate", 1), Statement("bounce", 1),
         Statement("integrate", 2), Statement("bounce", 2),
         Statement("integrate", 3), Statement("bounce", 3)>>

LoopBody(phase) ==
    <<Statement("damp", 0), Statement("force", 0)>>
    \o (IF phase \in {BLACKHOLE, CLASHING}
        THEN <<Statement("fade", 0)>> ELSE <<>>)
    \o <<Statement("integrate", 1), Statement("bounce", 1),
         Statement("integrate", 2), Statement("bounce", 2),
         Statement("integrate", 3), Statement("bounce", 3)>>

\* the face tests of one axis on the coordinate that was just integrated
ClampAxis(p, v, halfBox, particleRadius) ==
    IF p + particleRadius > halfBox
    THEN [p |-> halfBox - particleRadius, v |-> (-BounceFactor * v) \div 10]
    ELSE IF p - particleRadius < -halfBox
    THEN [p |-> -halfBox + particleRadius, v |-> (-BounceFactor * v) \div 10]
    ELSE [p |-> p, v |-> v]

\* the position and the velocity of the particle after one statement
Execute(st, pos, vel, phase, isSelected, force) ==
    LET halfBox == PassBoxSize \div 2
    IN  CASE st.s = "damp" ->
                [pos |-> pos,
                 vel |-> [d \in Axes |-> (vel[d] * PassDamping) \div 10]]
          [] st.s = "force" ->
                [pos |-> pos,
                 vel |-> [d \in Axes |->
                            vel[d] + (IF phase \in {FLOATING, SWIRLING,
                                                    BLACKHOLE, CLASHING}
                                      THEN force[d] ELSE 0)]]
          [] st.s = "fade" ->
                [pos |-> pos, vel |-> Faded(pos, vel, halfBox, isSelected)]
          [] st.s = "integrate" ->
                [pos |-> [pos EXCEPT ![st.d] = @ + vel[st.d]], vel |-> vel]
          [] st.s = "bounce" ->
                LET r == ClampAxis(pos[st.d], vel[st.d], halfBox, PassRadius)
                IN  [pos |-> [pos EXCEPT ![st.d] = r.p],
                     vel |-> [vel EXCEPT ![st.d] = r.v]]

\* a worker that holds one particle with the same speed on every axis
InitLoop ==
    /\ ctrl = CtrlInit
    /\ \E pos \in [Axes -> Coordinates], speed \in Speeds,
          selected \in {<<>>, <<0>>} :
          wk = [WorkerInit EXCEPT
                   !.particlePositions = Buf([d \in Axes |-> Num(pos[d])]),
                   !.particleVelocities = Buf([d \in Axes |-> Num(speed)]),
                   !.selectedIndices = selected]
    /\ toWorker = <<>>
    /\ toMain = <<>>
    /\ now = 0
    /\ last = [op |-> "constructor", arg |-> Undefined, from |-> FLOATING,
               threw |-> FALSE, tracked |-> {}, touched |-> {}]

\* the loop reaches the particle: a selected particle in liningUp is passed
\* over by continue, any other enters the loop body
DoEnterLoop ==
    /\ last.op = "constructor"
    /\ \E phase \in {FLOATING, SWIRLING, BLACKHOLE, CLASHING, LINING_UP},
          force \in Forces :
          LET isSelected == 0 \in SeqToSet(wk.selectedIndices)
          IN  last' = [last EXCEPT
                         !.op = IF phase = LINING_UP /\ isSelected
                                THEN "continue" ELSE "loopBody",
                         !.arg = [phase |-> phase, force |-> force,
                                  isSelected |-> isSelected,
                                  pos |-> [d \in Axes |->
                                             wk.particlePositions.a[d][1]],
                                  vel |-> [d \in Axes |->
                                             wk.particleVelocities.a[d][1]],
                                  pc |-> 1, trace |-> <<>>]]
    /\ wk' = wk
    /\ UNCHANGED <<ctrl, toWorker, toMain, now>>

\* the next statement of the loop body runs
DoStatement ==
    /\ last.op = "loopBody"
    /\ last.arg.pc <= Len(LoopBody(last.arg.phase))
    /\ LET st == LoopBody(last.arg.phase)[last.arg.pc]
           r == Execute(st,
                        [d \in Axes |-> wk.particlePositions.a[d][1]],
                        [d \in Axes |-> wk.particleVelocities.a[d][1]],
                        last.arg.phase, last.arg.isSelected, last.arg.force)
       IN  /\ wk' = [wk EXCEPT
                        !.particlePositions.a = [d \in Axes |-> Num(r.pos[d])],
                        !.particleVelocities.a = [d \in Axes |-> Num(r.vel[d])]]
           /\ last' = [last EXCEPT !.arg.pc = @ + 1,
                                   !.arg.trace = Append(@, st)]
    /\ UNCHANGED <<ctrl, toWorker, toMain, now>>

NextLoop ==
    \/ DoEnterLoop
    \/ DoStatement

SpecLoop == InitLoop /\ [][NextLoop]_vars

\* ------------------------------------ selectLuckyParticles by iteration
\* The while loop of selectLuckyParticles, one iteration per step. While
\* the loop runs, last.op is "selectLuckyParticles" and last.arg holds the
\* locals indices, count and particleCount.

\* startSimulation as the controller accepts it: it does not compare the
\* two numbers
DoStartSimulationSample ==
    /\ last.op # "selectLuckyParticles"
    /\ \E numLuckyNumbers \in 1..(MaxSample + 1) :
          Apply(StartSimulation(World, MaxSample, numLuckyNumbers, now),
                "startSimulation", Undefined)

\* startLuckyDraw up to the first test of the loop condition
DoEnterSelectLuckyParticles ==
    /\ last.op # "selectLuckyParticles"
    /\ ctrl.simulationStarted
    /\ ~ctrl.luckyParticleSelected
    /\ ~ctrl.particlePositions.null
    /\ Apply([World EXCEPT !.c.luckyParticleSelected = TRUE],
             "selectLuckyParticles",
             [indices |-> <<>>, count |-> ctrl.luckyParticleCount,
              particleCount |-> Len(ctrl.particlePositions.a) \div 3])

\* one iteration: indices.add(Math.floor(Math.random() * particleCount))
DoDrawIndex ==
    /\ last.op = "selectLuckyParticles"
    /\ Len(last.arg.indices) < last.arg.count
    /\ \E r \in RandomIndex(last.arg.particleCount) :
          last' = [last EXCEPT !.arg.indices = SetAdd(@, r)]
    /\ UNCHANGED <<ctrl, wk, toWorker, toMain, now>>

\* the loop condition is false: the rest of selectLuckyParticles and of
\* startLuckyDraw
DoLeaveDrawLoop ==
    /\ last.op = "selectLuckyParticles"
    /\ ~(Len(last.arg.indices) < last.arg.count)
    /\ LET indices == last.arg.indices
           V1 == [World EXCEPT !.c.selectedIndices = indices]
           V2 == CreateSelectedParticleMeshes(V1, indices)
           V3 == IF V2.exc # NoError THEN V2
                 ELSE Post(V2, Msg("updateSelected", 0, V2.c.currentPhase,
                                   0, indices))
       IN  \E W \in Then({V3}, LAMBDA V : SetPhase(V, SWIRLING, now)) :
              Apply(W, "startLuckyDraw",
                    [indices |-> indices, count |-> last.arg.count,
                     particleCount |-> last.arg.particleCount,
                     returned |-> V3.exc = NoError])

NextSample ==
    \/ DoStartSimulationSample
    \/ DoEnterSelectLuckyParticles
    \/ DoDrawIndex
    \/ DoLeaveDrawLoop

\* The loop runs to completion inside one call, so an iteration or the exit
\* that can be taken is taken; Math.random does not return values of the
\* Set for ever while a value outside it exists.
SpecSample ==
    Init /\ [][NextSample]_vars /\ WF_vars(DoDrawIndex) /\ WF_vars(DoLeaveDrawLoop)

TypeOK ==
    /\ ctrl.currentPhase \in PhaseValues
    /\ now \in 0..(MaxPauses * DURATION_SWIRL + MaxTicks * UPDATE_INTERVAL)

\* ------------------------------------------------------------ properties
PhaseOrder == <<FLOATING, SWIRLING, BLACKHOLE, CLASHING, SELECTION, LINING_UP>>

IsSuccessor(oldPhase, newPhase) ==
    \E i \in 1..(Len(PhaseOrder) - 1) :
        oldPhase = PhaseOrder[i] /\ newPhase = PhaseOrder[i + 1]

\* C1: within a run (simulationStarted holds) every change of currentPhase goes from a phase to its
\* successor in Floating, Swirling, Blackhole, Clashing, Selection,
\* LiningUp (Selection being the value the configuration gives
\* PHASES.SELECTION); only resetSimulation takes the controller back to
\* Floating, so no phase is skipped or revisited and LiningUp is left only
\* by reset.
C1_PhaseSequence ==
    [][ctrl.simulationStarted /\ ctrl'.currentPhase # ctrl.currentPhase =>
          \/ IsSuccessor(ctrl.currentPhase, ctrl'.currentPhase)
          \/ last'.op = "resetSimulation" /\ ctrl'.currentPhase = FLOATING]_vars

C1_Witness ==
    /\ ctrl.simulationStarted
    /\ ctrl.currentPhase = LINING_UP
    /\ ctrl.luckyParticleSelected
    /\ wk.frameCount >= 1
    /\ last.op = "handleWorkerMessage"

\* C2: at any moment at most one update request is outstanding, that is
\* posted to the worker and not yet answered (here in the weakest reading:
\* not yet taken up by the worker).
C2_AtMostOneOutstanding == PendingUpdates(toWorker) <= 1

\* C3: an update issued while the previous update request is unanswered
\* (the request is still queued, or its answer has not been handled) is
\* dropped: the call posts no further update request.
C3_SecondUpdateDropped ==
    [][/\ last'.op = "update"
       /\ PendingUpdates(toWorker) + PendingAnswers(toMain) >= 1
       => PendingUpdates(toWorker') <= PendingUpdates(toWorker)]_vars

IsDistinct(seq) ==
    \A i, j \in 1..Len(seq) : i # j => seq[i] # seq[j]

\* C4: once selectLuckyParticles(K) has run on N particles, selectedIndices
\* holds exactly K pairwise distinct indices, each in 0..N-1.
C4_SelectionExact ==
    ctrl.selectedIndices # <<>> =>
        /\ ~ctrl.particlePositions.null
        /\ Len(ctrl.selectedIndices) = ctrl.luckyParticleCount
        /\ IsDistinct(ctrl.selectedIndices)
        /\ \A i \in 1..Len(ctrl.selectedIndices) :
              ctrl.selectedIndices[i] \in
                  0..(Len(ctrl.particlePositions.a) \div PARTICLE_STRIDE - 1)

C4_Witness ==
    /\ last.op = "startLuckyDraw"
    /\ ~last.threw
    /\ Len(ctrl.selectedIndices) = MaxN
    /\ Len(ctrl.particlePositions.a) = MaxN * PARTICLE_STRIDE

\* C5: the selection is populated at most once per run: it is filled only
\* by a draw that finds luckyParticleSelected false and sets it, that flag is
\* cleared only by resetSimulation, and a filled selection is changed by no
\* operation other than resetSimulation and dispose, which empty it.
C5_SelectionOnce ==
    [][/\ ctrl.selectedIndices = <<>> /\ ctrl'.selectedIndices # <<>>
          => ~ctrl.luckyParticleSelected /\ ctrl'.luckyParticleSelected
       /\ ctrl.luckyParticleSelected /\ ~ctrl'.luckyParticleSelected
          => last'.op = "resetSimulation"
       /\ ctrl.selectedIndices # <<>>
             /\ ctrl'.selectedIndices # ctrl.selectedIndices
          => /\ last'.op \in {"resetSimulation", "dispose"}
             /\ ctrl'.selectedIndices = <<>>]_vars

C5_Witness ==
    /\ ctrl.selectedIndices # <<>>
    /\ ctrl.luckyParticleCount < Len(ctrl.particlePositions.a) \div PARTICLE_STRIDE
    /\ last.op = "startLuckyDraw"
    /\ wk.frameCount >= 1

AllZero(buffer) ==
    buffer.null \/ \A i \in 1..Len(buffer.a) : buffer.a[i] = Num(0)

\* C6: resetSimulation leaves currentPhase = Floating, selectedIndices and
\* targetPositions empty, luckyParticleSelected and simulationStarted
\* false, and every element of the position and velocity buffers 0 (the
\* worker and its buffers are gone).
C6_ResetPostcondition ==
    last.op = "resetSimulation" =>
        /\ ~last.threw
        /\ ctrl.currentPhase = FLOATING
        /\ ctrl.selectedIndices = <<>>
        /\ ctrl.targetPositions = <<>>
        /\ ~ctrl.luckyParticleSelected
        /\ ~ctrl.simulationStarted
        /\ AllZero(ctrl.particlePositions)
        /\ AllZero(ctrl.particleVelocities)
        /\ wk.particlePositions.null
        /\ wk.particleVelocities.null

C6_Witness ==
    /\ last.op = "resetSimulation"
    /\ ctrl.luckyParticleCount = MaxN
    /\ Len(ctrl.particlePositions.a) = MaxN * PARTICLE_STRIDE
    /\ ctrl.lastUpdateTime >= UPDATE_INTERVAL

\* C7: after startSimulation and a draw, an update the controller accepts
\* in Swirling at a timestamp that has reached blackholeStartTime (entry
\* time + DURATIONS.SWIRL) takes the run on to Blackhole, the first timed
\* step of the way to LiningUp.
C7_SwirlingEndsOnTime ==
    [][/\ last'.op = "update"
       /\ ctrl'.lastUpdateTime # ctrl.lastUpdateTime
       /\ ctrl.simulationStarted
       /\ ctrl.luckyParticleSelected
       /\ Len(ctrl.selectedIndices) = ctrl.luckyParticleCount
       /\ ctrl.currentPhase = SWIRLING
       /\ now >= ctrl.blackholeStartTime
       => ctrl'.currentPhase = BLACKHOLE]_vars

TransitionTable ==
    {<<PhaseOrder[i], PhaseOrder[i + 1]>> : i \in 1..(Len(PhaseOrder) - 1)}

InvalidPhaseTransitionKey == "Invalid Phase Transition"

\* C8 (as stated): setPhase(newPhase) with a (currentPhase, newPhase) pair
\* that is not in the transition table is rejected: currentPhase keeps its
\* value, the attempt is tracked as an invalid phase transition and no
\* exception is raised.
C8_OutsideTableRejected ==
    last.op = "setPhase" /\ <<last.from, last.arg>> \notin TransitionTable =>
        /\ ctrl.currentPhase = last.from
        /\ InvalidPhaseTransitionKey \in last.tracked
        /\ ~last.threw

\* C8 (amended): setPhase(newPhase) with newPhase different from the
\* current phase and a pair that is not in the transition table is
\* rejected: currentPhase keeps its value, the attempt is tracked as an
\* invalid phase transition and no exception is raised; a request for the
\* current phase itself is accepted and is not tracked as invalid.
C8_OtherPhaseOutsideTableRejected ==
    /\ /\ last.op = "setPhase"
       /\ last.arg # last.from
       /\ <<last.from, last.arg>> \notin TransitionTable
       => /\ ctrl.currentPhase = last.from
          /\ InvalidPhaseTransitionKey \in last.tracked
          /\ ~last.threw
    /\ last.op = "setPhase" /\ last.arg = last.from
       => /\ ctrl.currentPhase = last.from
          /\ InvalidPhaseTransitionKey \notin last.tracked

C8_Witness ==
    /\ last.op = "setPhase"
    /\ ctrl.simulationStarted
    /\ last.from = LINING_UP
    /\ last.arg = FLOATING
    /\ InvalidPhaseTransitionKey \in last.tracked

\* C9: in a run driven by startSimulation, startLuckyDraw, update ticks and
\* worker acknowledgements no operation of the controller reports an
\* invalid phase transition, neither setPhase ('Invalid Phase Transition')
\* nor handlePhaseChange ('Invalid Transition').
C9_NoInvalidTransition == last.tracked = {}

C9_Witness ==
    /\ last.op = "handleWorkerMessage"
    /\ ctrl.currentPhase = SWIRLING
    /\ ctrl.luckyParticleSelected
    /\ ctrl.lastUpdateTime >= DURATION_SWIRL
    /\ wk.frameCount >= 2
    /\ toMain = <<>>

\* C10: when the controller handles the 'updated' acknowledgement of the
\* only update request in flight, its particlePositions holds what the
\* worker's position buffer holds.
C10_PositionsVisible ==
    [][/\ toWorker = <<>>
       /\ Len(toMain) = 1
       /\ Head(toMain).command = "updated"
       /\ last'.op = "handleWorkerMessage"
       /\ toMain' = <<>>
       /\ wk' = wk
       => /\ ~ctrl'.particlePositions.null
          /\ ctrl'.particlePositions.a = wk'.particlePositions.a]_vars

\* C11: the controller reads or writes an element of the position and
\* velocity buffers only while no update request is outstanding (sent and
\* not yet answered).
C11_BuffersOwned == "busy" \notin last.touched

\* the step in which the worker handles the message at the head of its queue
WorkerHandles ==
    /\ toWorker # <<>>
    /\ toWorker' = Tail(toWorker)
    /\ UNCHANGED <<ctrl, last>>

IsMalformed(m) ==
    \/ m.command \in ValidatedCommands /\ m.payload # "ok"
    \/ m.command \notin ValidatedCommands \cup {"reset"}

\* C12: a message that lacks a required property of its command, carries a
\* payload that is not an object, or names an unknown command is answered
\* with exactly one validation_error, and isProcessing is false after the
\* handler, so that no later message is dropped.
C12_MalformedAnswered ==
    [][WorkerHandles /\ IsMalformed(Head(toWorker)) =>
          /\ Len(toMain') = Len(toMain) + 1
          /\ SubSeq(toMain', 1, Len(toMain)) = toMain
          /\ toMain'[Len(toMain')].command = "validation_error"
          /\ ~wk'.isProcessing]_vars

C12_Witness ==
    \E i \in 1..Len(toMain) :
        /\ toMain[i].command = "validation_error"
        /\ toMain[i].error = MissingProperty
        /\ ~wk.isProcessing

\* the worker answers the message at the head of its queue with command
Answers(command) ==
    /\ WorkerHandles
    /\ Len(toMain') = Len(toMain) + 1
    /\ toMain'[Len(toMain')].command = command

\* C13: a request answered with validation_error leaves the worker's
\* position and velocity buffers, its selection, its current phase and its
\* frame count as they were before the request.
C13_RejectedIgnored ==
    [][Answers("validation_error") =>
          /\ wk'.particlePositions = wk.particlePositions
          /\ wk'.particleVelocities = wk.particleVelocities
          /\ wk'.selectedIndices = wk.selectedIndices
          /\ wk'.currentPhase = wk.currentPhase
          /\ wk'.frameCount = wk.frameCount]_vars

\* C14: a well-formed init is answered by exactly one initialized; once the
\* worker is initialized a well-formed update is answered by exactly one
\* updated and a reset by exactly one reset_complete.
C14_OneReplyPerRequest ==
    [][WorkerHandles =>
          LET m == Head(toWorker)
          IN  /\ m.command = "init" /\ m.payload = "ok"
                    => Answers("initialized")
              /\ ~wk.particlePositions.null /\ m.command = "update"
                  /\ m.payload = "ok"
                    => Answers("updated")
              /\ ~wk.particlePositions.null /\ m.command = "reset"
                    => Answers("reset_complete")]_vars

IsUpdated(m) == m.command = "updated"
IsUpdate(m) == m.command = "update"

\* the frame numbers of the acknowledgements waiting for the controller
AckFrames(main) ==
    LET acks == SelectSeq(main, IsUpdated)
    IN  [i \in 1..Len(acks) |-> acks[i].frame]

\* the timestamps of the update requests waiting for the worker
RequestTimes(worker) ==
    LET reqs == SelectSeq(worker, IsUpdate)
    IN  [i \in 1..Len(reqs) |-> reqs[i].time]

Increasing(seq) ==
    \A i, j \in 1..Len(seq) : i < j => seq[i] < seq[j]

Apart(a, b) ==
    /\ a # UndefinedTime
    /\ b # UndefinedTime
    /\ b - a >= UPDATE_INTERVAL

\* C16: any two update requests the controller has sent carry timestamps at
\* least UPDATE_INTERVAL apart, whatever the rate of the animation loop and
\* including the request of its first call.
C16_UpdatesSpaced ==
    \A i, j \in 1..Len(RequestTimes(toWorker)) :
        i < j => Apart(RequestTimes(toWorker)[i], RequestTimes(toWorker)[j])

C18_NothingEscapes ==
    last.op \in {"handleWorkerMessage", "handleWorkerError", "setPhase",
                 "update"}
        => ~last.threw

\* C19: resetSimulation and dispose terminate the worker and abandon what is
\* in flight: after them the controller has no worker, while it has none no
\* request and no answer is pending (so no updated message of an earlier
\* request reaches the reset controller), and it has a worker to send to
\* only in a run that startSimulation has started.
C19_ResetAbandons ==
    /\ last.op \in {"resetSimulation", "dispose"} => ~ctrl.worker
    /\ ~ctrl.worker => toWorker = <<>> /\ toMain = <<>>
    /\ ctrl.worker => ctrl.simulationStarted /\ ~ctrl.particlePositions.null

\* a reset after an update request had been sent
C19_Witness ==
    /\ last.op = "resetSimulation"
    /\ ctrl.lastUpdateTime > 0
    /\ ~ctrl.worker
    /\ ~ctrl.simulationStarted
    /\ toWorker = <<>>
    /\ toMain = <<>>

\* C20: the controller leaves Floating only in a startLuckyDraw call; no
\* update, no message of the worker and no passing of time moves it out of
\* Floating.
C20_FloatingLeftByDraw ==
    [][ctrl.currentPhase = FLOATING /\ ctrl'.currentPhase # FLOATING
          => last'.op = "startLuckyDraw"]_vars

\* Floating has been left although time had passed and an update had run
C20_Witness ==
    /\ last.op = "startLuckyDraw"
    /\ ctrl.currentPhase = SWIRLING
    /\ ctrl.lastUpdateTime >= DURATION_SWIRL
    /\ ctrl.luckyParticleSelected

\* the configured duration of a timed phase
ConfiguredDuration(phase) ==
    CASE phase = SWIRLING -> DURATION_SWIRL
      [] phase = BLACKHOLE -> DURATION_BLACKHOLE
      [] phase = CLASHING -> DURATION_EXPLOSION
      [] phase = SELECTION -> DURATION_LINE_UP
      [] OTHER -> 0

\* C21: a tick (an update call) or a message of the worker takes the
\* controller out of a phase only when the phase is timed and the timestamp
\* is at least the entry time of the phase plus its configured duration;
\* Blackhole is entered that way only from Swirling under that condition.
C21_LeftOnExpiry ==
    [][(last'.op \in {"update", "handleWorkerMessage"}
        /\ ctrl'.currentPhase # ctrl.currentPhase) =>
          /\ ctrl.currentPhase \in {SWIRLING, BLACKHOLE, CLASHING, SELECTION}
          /\ now >= ctrl.phaseStartTime + ConfiguredDuration(ctrl.currentPhase)
      ]_vars

\* Blackhole has been left for Clashing by a tick
C21_Witness ==
    /\ last.op = "update"
    /\ last.from = BLACKHOLE
    /\ ctrl.currentPhase = CLASHING
    /\ ctrl.clashStartTime >= DURATION_BLACKHOLE

\* C22: whenever a started run (not disposed of) is in Clashing, Selection
\* or LiningUp its one-time draw has happened: luckyParticleSelected is set
\* and selectedIndices holds exactly luckyParticleCount indices.
C22_DrawnBeforeClashing ==
    ctrl.simulationStarted
    /\ ~ctrl.particlePositions.null
    /\ ctrl.currentPhase \in {CLASHING, SELECTION, LINING_UP}
        => /\ ctrl.luckyParticleSelected
           /\ Len(ctrl.selectedIndices) = ctrl.luckyParticleCount

\* the x of the i-th entry of targetPositions as <<numerator, denominator>>
TargetOf(i) == ctrl.targetPositions[i][2]

\* C23: after a draw of K > 1 indices the index of 0-based rank r has the
\* target x = -1 + 2r/(K-1): the first is -1, the last is 1, and x grows
\* strictly with the rank.
C23_TargetsSpanInterval ==
    LET K == Len(ctrl.selectedIndices)
    IN  K > 1 /\ ctrl.targetPositions # <<>> =>
          /\ Len(ctrl.targetPositions) = K
          /\ \A i \in 1..K :
                /\ ctrl.targetPositions[i][1] = ctrl.selectedIndices[i]
                /\ ~IsNaN(TargetOf(i))
                /\ TargetOf(i)[2] > 0
                /\ TargetOf(i)[1] * (K - 1)
                      = (2 * (i - 1) - (K - 1)) * TargetOf(i)[2]
          /\ TargetOf(1)[1] = -TargetOf(1)[2]
          /\ TargetOf(K)[1] = TargetOf(K)[2]
          /\ \A i, j \in 1..K :
                i < j => TargetOf(i)[1] * TargetOf(j)[2]
                           < TargetOf(j)[1] * TargetOf(i)[2]

\* a draw of MaxDraw indices whose targets have been computed twice
C23_Witness ==
    /\ last.op = "updateSelectedParticleTargets"
    /\ Len(ctrl.selectedIndices) = MaxDraw
    /\ Len(ctrl.targetPositions) = MaxDraw
    /\ TargetOf(2) = <<3 - MaxDraw, MaxDraw - 1>>

\* C24: after a draw of exactly one index the target of that index is
\* x = 0, a number.
C24_SingleTargetIsZero ==
    Len(ctrl.selectedIndices) = 1 /\ ctrl.targetPositions # <<>> =>
        /\ ~IsNaN(TargetOf(1))
        /\ TargetOf(1)[1] = 0

\* C25: in every reachable state currentPhase is one of the named phases of
\* ANIMATION_CONFIG.PHASES; no accepted transition leaves it undefined.
C25_PhaseIsNamed ==
    /\ ctrl.currentPhase # Undefined
    /\ ctrl.currentPhase \in PhaseValues

\* the update of this step went as far as its request to the worker, the
\* statement before ui.updateProgress
UpdateReachedProgress ==
    /\ last.op = "update"
    /\ ~last.threw
    /\ toWorker # <<>>
    /\ toWorker[Len(toWorker)].command = "update"
    /\ toWorker[Len(toWorker)].time = last.arg
    /\ ctrl.lastUpdateTime = last.arg

\* the fraction that update hands to ui.updateProgress
PhaseProgress ==
    CalculatePhaseProgress(ctrl.currentPhase, ctrl.phaseStartTime, last.arg)

\* C26: the progress fraction passed to ui.updateProgress lies in [0, 1],
\* whatever the phase and the timestamp of the tick.
C26_ProgressInUnitInterval ==
    UpdateReachedProgress =>
        /\ PhaseProgress[2] > 0
        /\ 0 <= PhaseProgress[1]
        /\ PhaseProgress[1] <= PhaseProgress[2]

\* the particle count N of the run, as handleWorkerError reads it
RunParticleCount == Len(ctrl.particlePositions.a) \div PARTICLE_STRIDE

C28_StartedStartIsNoOp ==
    [][/\ (last' # last /\ last'.op = "startSimulation"
            /\ ctrl.simulationStarted)
              => UNCHANGED <<ctrl, wk, toWorker, toMain>>
       /\ (/\ ~ctrl.particlePositions.null
           /\ ~ctrl'.particlePositions.null
           /\ \/ Len(ctrl'.particlePositions.a) # Len(ctrl.particlePositions.a)
              \/ ctrl'.luckyParticleCount # ctrl.luckyParticleCount)
              => /\ last'.op = "startSimulation"
                 /\ ~ctrl.simulationStarted
                 /\ ctrl'.simulationStarted
      ]_vars

\* startSimulation was called in the Swirling phase of a started run
C28_Witness ==
    /\ last.op = "startSimulation"
    /\ last.from = SWIRLING
    /\ ctrl.currentPhase = SWIRLING
    /\ ctrl.simulationStarted
    /\ ctrl.luckyParticleSelected
    /\ ctrl.worker

\* the limits of the box for the centre of a particle
ClampToBox(x) ==
    LET hi == PassBoxSize \div 2 - PassRadius
    IN  IF x > hi THEN hi ELSE IF x < -hi THEN -hi ELSE x

\* the velocity of the particle of this pass after damping and the force
\* of the phase (and the fading near the centre, which the blackhole and
\* the clash rule count as part of their force)
NewVelocity ==
    IF last.arg.phase = LINING_UP /\ last.arg.isSelected
    THEN last.arg.vel
    ELSE LET v == DampedAndForced(last.arg.vel, last.arg.phase, last.arg.force)
         IN  IF last.arg.phase \in {BLACKHOLE, CLASHING}
             THEN Faded(last.arg.pos, v, PassBoxSize \div 2, last.arg.isSelected)
             ELSE v

\* C29: after a pass, in every phase and for every particle, each coordinate
\* is clampToBox(coordinate before the pass + velocity after damping and
\* force accumulation).
C29_PositionIsClampedSum ==
    last.op = "updateParticlePhysics" =>
        \A d \in Axes :
            wk.particlePositions.a[d]
                = Num(ClampToBox(last.arg.pos[d] + NewVelocity[d]))

\* the particle of this pass went through the loop body
Processed ==
    /\ last.op = "updateParticlePhysics"
    /\ ~(last.arg.phase = LINING_UP /\ last.arg.isSelected)

\* the integrated coordinate of axis d is beyond a face of the box
Beyond(d) ==
    LET q == last.arg.pos[d] + NewVelocity[d]
    IN  \/ q + PassRadius > PassBoxSize \div 2
        \/ q - PassRadius < -(PassBoxSize \div 2)

\* C30: an axis whose integrated coordinate passes a face is set on the face
\* less the radius and its velocity v becomes -0.8 v, in every phase; an axis
\* that does not pass a face keeps its integrated coordinate and velocity.
C30_BounceOnAxis ==
    Processed =>
        \A d \in Axes :
            LET q == last.arg.pos[d] + NewVelocity[d]
                p == wk.particlePositions.a[d][1]
                v == wk.particleVelocities.a[d][1]
            IN  /\ q + PassRadius > PassBoxSize \div 2 =>
                      /\ p = PassBoxSize \div 2 - PassRadius
                      /\ 10 * v = -BounceFactor * NewVelocity[d]
                /\ q - PassRadius < -(PassBoxSize \div 2) =>
                      /\ p = -(PassBoxSize \div 2) + PassRadius
                      /\ 10 * v = -BounceFactor * NewVelocity[d]
                /\ ~Beyond(d) => p = q /\ v = NewVelocity[d]
                /\ BounceFactor < 10

\* a blackhole pass in which the first axis bounced off the upper face and
\* the second axis moved freely
C30_Witness ==
    /\ Processed
    /\ last.arg.phase = BLACKHOLE
    /\ Beyond(1)
    /\ NewVelocity[1] > 0
    /\ wk.particleVelocities.a[1][1] < 0
    /\ ~Beyond(2)
    /\ NewVelocity[2] # 0

C32_BundleDefined ==
    \A i \in 1..Len(toWorker) :
        toWorker[i].command = "update" =>
            LET params == GetCurrentPhaseParams(toWorker[i].phase)
            IN  /\ params.gravitationalPull.defined
                /\ params.orbitalVelocityFactor.defined
                /\ params.damping.defined

\* C33: the statements a processed particle has gone through so far are in
\* the order damp, force, integrate, bounce (no face test before the force
\* step, no damping after it), and a particle that has left the loop body
\* went through all four, each axis integrated before its face test; the
\* result is that of the pass.
C33_FixedOrder ==
    last.op = "loopBody" =>
        LET trace == last.arg.trace
            Rank(st) ==
                CASE st.s = "damp" -> 1
                  [] st.s = "force" -> 2
                  [] st.s = "fade" -> 3
                  [] st.s = "integrate" -> 2 + 2 * st.d
                  [] st.s = "bounce" -> 3 + 2 * st.d
        IN  /\ \A i, j \in 1..Len(trace) :
                  i < j => Rank(trace[i]) < Rank(trace[j])
            /\ last.arg.pc > Len(LoopBody(last.arg.phase)) =>
                  /\ Statement("damp", 0) \in SeqToSet(trace)
                  /\ Statement("force", 0) \in SeqToSet(trace)
                  /\ \A d \in Axes :
                        /\ Statement("integrate", d) \in SeqToSet(trace)
                        /\ Statement("bounce", d) \in SeqToSet(trace)
                  /\ LET r == UpdateParticle(last.arg.pos, last.arg.vel,
                                             last.arg.phase,
                                             last.arg.isSelected,
                                             last.arg.force)
                     IN  \A d \in Axes :
                            /\ wk.particlePositions.a[d] = Num(r[d].p)
                            /\ wk.particleVelocities.a[d] = Num(r[d].v)

\* a moving particle pushed by a force has gone through the whole loop body
\* of a swirling pass and bounced off a face
C33_Witness ==
    /\ last.op = "loopBody"
    /\ last.arg.pc > Len(LoopBody(last.arg.phase))
    /\ last.arg.phase = SWIRLING
    /\ last.arg.force[1] # 0
    /\ last.arg.vel[1] # 0
    /\ Len(last.arg.trace) = 8
    /\ \E d \in Axes : wk.particleVelocities.a[d][1] * last.arg.vel[d] < 0

\* C34: after a pass in the lining-up phase an unselected particle has zero
\* velocity on every axis and the position it had before the pass.
C34_UnselectedFrozen ==
    (/\ last.op = "updateParticlePhysics"
     /\ last.arg.phase = LINING_UP
     /\ ~last.arg.isSelected) =>
        \A d \in Axes :
            /\ wk.particleVelocities.a[d] = Num(0)
            /\ wk.particlePositions.a[d] = Num(last.arg.pos[d])

\* C35: a pass in the lining-up phase leaves a selected particle that is not
\* at its target strictly closer to the target than it was. The target is
\* that of draw rank 0 in a draw of two, (-1, 0, 0), in tenths.
C35_SelectedApproachTarget ==
    LET x == TargetX(0, 2)
        PassTarget == <<(10 * x[1]) \div x[2], 0, 0>>
    IN
    (/\ last.op = "updateParticlePhysics"
     /\ last.arg.phase = LINING_UP
     /\ last.arg.isSelected
     /\ last.arg.pos # PassTarget) =>
        LET Dist2(a) ==
                (a[1] - PassTarget[1]) * (a[1] - PassTarget[1])
                  + (a[2] - PassTarget[2]) * (a[2] - PassTarget[2])
                  + (a[3] - PassTarget[3]) * (a[3] - PassTarget[3])
        IN  Dist2([d \in Axes |-> wk.particlePositions.a[d][1]])
                < Dist2(last.arg.pos)


C37_DrawLoopTerminates ==
    (last.op = "selectLuckyParticles" /\ last.arg.count <= last.arg.particleCount)
        ~> (/\ last.op = "startLuckyDraw"
            /\ last.arg.returned
            /\ Len(ctrl.selectedIndices) = last.arg.count
            /\ (last.arg.count = last.arg.particleCount =>
                   SeqToSet(ctrl.selectedIndices) = 0..(last.arg.particleCount - 1)))

C37_Witness ==
    /\ last.op = "startLuckyDraw"
    /\ last.arg.returned
    /\ last.arg.count = last.arg.particleCount
    /\ last.arg.particleCount = MaxSample
    /\ SeqToSet(ctrl.selectedIndices) = 0..(MaxSample - 1)
    /\ ctrl.selectedIndices[1] = MaxSample - 1


\* C38: whenever the controller has a worker whose queue is empty, the
\* worker's selectedIndices are the controller's selectedIndices.
C38_WorkerSelectionAgrees ==
    (ctrl.worker /\ toWorker = <<>>) =>
        wk.selectedIndices = ctrl.selectedIndices


\* C39: every message in the worker's queue has a command of the worker's
\* switch, and no answer of the worker reports an unknown command.
C39_CommandsAccepted ==
    /\ \A i \in 1..Len(toWorker) :
          toWorker[i].command \in {"init", "update", "updateSelected", "reset"}
    /\ \A i \in 1..Len(toMain) :
          toMain[i].command = "validation_error" =>
              \A c \in {"phaseChange", "resetForces", "updateTargets", "cleanup"} :
                  toMain[i].error # UnknownCommand(c)


\* C40: luckyParticleSelected is set exactly when selectedIndices is not
\* empty, selectedIndices has no or luckyParticleCount elements, and the
\* keys of targetPositions and of selectedParticleMeshes are the selected
\* indices.
C40_SelectionConsistent ==
    /\ ctrl.luckyParticleSelected <=> ctrl.selectedIndices # <<>>
    /\ Len(ctrl.selectedIndices) \in {0, ctrl.luckyParticleCount}
    /\ {ctrl.targetPositions[i][1] : i \in 1..Len(ctrl.targetPositions)}
           = SeqToSet(ctrl.selectedIndices)
    /\ SeqToSet(ctrl.selectedParticleMeshes) = SeqToSet(ctrl.selectedIndices)

====
